---- MODULE Spec2Model ----
(***************************************************************************)
(* really-wrapped.mts: a script that reads the "imported_plays" MongoDB    *)
(* collection through ten aggregation pipelines and prints a summary line  *)
(* and eight ranked lists, plus importPlays(), the loader of the export    *)
(* batches.                                                                *)
(*                                                                         *)
(* Representation.                                                         *)
(*  - A play document is a record with the fields of PlayRecord that the   *)
(*    pipelines read, plus sourceFile.  Strings (uris, names) are natural  *)
(*    numbers; JSON null is Null.                                          *)
(*  - ts is a Date, counted in seconds from 2024-01-01T00:00:00Z.          *)
(*  - store is the collection in natural (insertion) order.                *)
(*  - Minutes and hours rounded to 2 decimals are integers counting        *)
(*    hundredths (0.83 min is 83).                                         *)
(*  - MongoDB leaves two orders unspecified: the order of the documents    *)
(*    $group emits, and the relative order $sort gives documents with      *)
(*    equal sort keys.  $group therefore yields a set, and $sort the set   *)
(*    of every sequence ordered by the key.                                *)
(***************************************************************************)
EXTENDS Integers, Sequences, FiniteSets, TLC

VARIABLES
    store,                \* documents of db.collection("imported_plays")
    pc,                   \* position of the top-level script
    total_mins_played,    \* value returned by getTotalMinsPlayed
    unique_tracks_played, \* value returned by getTotalUniqueTracksPlayed
    title,                \* title of the list handed to logSeries last
    rows,                 \* records handed to logSeries last
    console,              \* lines written by console.log, abstracted
    files,                \* entries of ./spotify_extended_play_history
    idx,                  \* importPlays: entries of files already visited
    ipc                   \* importPlays: position

vars == <<store, pc, total_mins_played, unique_tracks_played, title, rows,
          console, files, idx, ipc>>

runVars == <<pc, total_mins_played, unique_tracks_played, title, rows>>

importVars == <<files, idx, ipc>>

-----------------------------------------------------------------------------
(* Bounds *)

MaxLen == 3

MaxGroups == 11

MaxFiles == 2

-----------------------------------------------------------------------------
(* Values *)

Null == 0

\* "spotify:track:1PZoHdDM71mzOFW1T6H03y"
ExcludedUri == 1

\* new Date("2024-01-01T00:00:00Z")
RangeStart == 0

\* new Date("2025-01-01T00:00:00Z"): 2024 has 366 days
RangeEnd == 31622400

SecondsPerDay == 86400

MinMsPlayed == 30000

MsPerMinute == 60000

MsPerHour == 3600000

Limit == 10

\* a variable not assigned yet
NoValue == [undefined |-> TRUE]

Min(a, b) == IF a <= b THEN a ELSE b

-----------------------------------------------------------------------------
(* Pure parts of the pipelines *)

\* filter with $lte for $lt at the end of the range
filter_RangeEndInclusive(e) ==
    /\ e.incognito_mode = FALSE
    /\ e.ms_played >= MinMsPlayed
    /\ e.spotify_track_uri \notin {ExcludedUri}
    /\ e.ts >= RangeStart
    /\ e.ts <= RangeEnd

\* const filter
filter(e) ==
    /\ e.incognito_mode = FALSE
    /\ e.ms_played >= MinMsPlayed
    /\ e.spotify_track_uri \notin {ExcludedUri}
    /\ e.ts >= RangeStart
    /\ e.ts < RangeEnd

\* { $match: filter }
Match(docs) == SelectSeq(docs, filter)

RECURSIVE SumMs(_)
\* { $sum: "$ms_played" }
SumMs(docs) ==
    IF docs = <<>> THEN 0 ELSE Head(docs).ms_played + SumMs(Tail(docs))

\* $trunc for $round
TruncDiv2(ms, unit) == (ms * 100) \div unit

\* { $round: [{ $divide: [ms, unit] }, 2] }: the nearest hundredth, a tie
\* going to the even hundredth
RoundDiv2(ms, unit) ==
    LET q == (ms * 100) \div unit
        r == (ms * 100) % unit
    IN  IF 2 * r > unit THEN q + 1
        ELSE IF 2 * r < unit THEN q
        ELSE IF q % 2 = 0 THEN q ELSE q + 1

DaysInMonth(y, m) ==
    IF m = 2 THEN (IF y % 4 = 0 THEN 29 ELSE 28)
    ELSE IF m \in {4, 6, 9, 11} THEN 30 ELSE 31

DaysInYear(y) == IF y % 4 = 0 THEN 366 ELSE 365

RECURSIVE YearMonthDay(_, _, _)
\* the civil date that is d days after the first of month m of year y
YearMonthDay(y, m, d) ==
    IF d < 0
    THEN YearMonthDay(y - 1, 1, d + DaysInYear(y - 1))
    ELSE IF d >= DaysInMonth(y, m)
         THEN IF m = 12 THEN YearMonthDay(y + 1, 1, d - DaysInMonth(y, m))
              ELSE YearMonthDay(y, m + 1, d - DaysInMonth(y, m))
         ELSE <<y, m, d + 1>>

\* { $dateToString: { format: "%Y-%m-%d", date: "$ts" } }, in UTC
DateToString(ts) == YearMonthDay(2024, 1, ts \div SecondsPerDay)

RECURSIVE DocsOfKey(_, _, _)
\* the documents of docs whose key is k, in the order they came in
DocsOfKey(docs, keys, k) ==
    IF docs = <<>> THEN <<>>
    ELSE (IF Head(keys) = k THEN <<Head(docs)>> ELSE <<>>)
         \o DocsOfKey(Tail(docs), Tail(keys), k)

\* $group: one document per distinct _id, keys[i] being the _id expression
\* evaluated on docs[i]
GroupBy(docs, keys) ==
    { [_id |-> k, docs |-> DocsOfKey(docs, keys, k)] :
        k \in { keys[i] : i \in DOMAIN keys } }

\* _id: "$spotify_track_uri"
TrackUris(docs) == [i \in DOMAIN docs |-> docs[i].spotify_track_uri]

\* _id: "$master_metadata_album_artist_name"
ArtistNames(docs) ==
    [i \in DOMAIN docs |-> docs[i].master_metadata_album_artist_name]

\* _id: "$master_metadata_album_album_name"
AlbumNames(docs) ==
    [i \in DOMAIN docs |-> docs[i].master_metadata_album_album_name]

\* _id: { $dateToString: { format: "%Y-%m-%d", date: "$ts" } }
Days(docs) == [i \in DOMAIN docs |-> DateToString(docs[i].ts)]

\* _id: null
Nulls(docs) == [i \in DOMAIN docs |-> Null]

MaxOf(S) == CHOOSE x \in S : \A y \in S : y <= x

MinOf(S) == CHOOSE x \in S : \A y \in S : x <= y

RECURSIVE SortAscending(_, _)
\* { $sort: { field: 1 } }
SortAscending(G, field) ==
    IF G = {} THEN {<<>>}
    ELSE LET m == MinOf({ g[field] : g \in G })
         IN  UNION { { <<g>> \o s : s \in SortAscending(G \ {g}, field) } :
                       g \in { h \in G : h[field] = m } }

RECURSIVE Sort(_, _)
\* { $sort: { field: -1 } }: every order of the documents G that is
\* non-increasing in field
Sort(G, field) ==
    IF G = {} THEN {<<>>}
    ELSE LET m == MaxOf({ g[field] : g \in G })
         IN  UNION { { <<g>> \o s : s \in Sort(G \ {g}, field) } :
                       g \in { h \in G : h[field] = m } }

\* a cursor without limit
TakeAll(s, n) == s

\* cursor.limit(10)
Take(s, n) == SubSeq(s, 1, Min(n, Len(s)))



-----------------------------------------------------------------------------
(* The ten queries.  A leaderboard query yields the set of arrays toArray() *)
(* can resolve to; a scalar query yields what the function returns, or that *)
(* it threw.                                                                *)

Returned(v) == [threw |-> FALSE, value |-> v]

\* reading a property of undefined: TypeError
Threw == [threw |-> TRUE]

TrackTimeGroups(coll) ==
    { [_id |-> g._id,
       total_ms_played |-> SumMs(g.docs),
       track_name |-> g.docs[1].master_metadata_track_name,
       artist_name |-> g.docs[1].master_metadata_album_artist_name,
       album_name |-> g.docs[1].master_metadata_album_album_name] :
        g \in GroupBy(Match(coll), TrackUris(Match(coll))) }

TrackTimeProject(g) ==
    [_id |-> g._id,
     track_name |-> g.track_name,
     artist_name |-> g.artist_name,
     total_mins_played |-> RoundDiv2(g.total_ms_played, MsPerMinute),
     total_hours |-> RoundDiv2(g.total_ms_played, MsPerHour)]

getTopTracksByPlayTime(coll) ==
    { Take([i \in DOMAIN s |-> TrackTimeProject(s[i])], Limit) :
        s \in Sort(TrackTimeGroups(coll), "total_ms_played") }

TrackCountGroups(coll) ==
    { [_id |-> g._id,
       total_play_count |-> Len(g.docs),
       track_name |-> g.docs[1].master_metadata_track_name,
       artist_name |-> g.docs[1].master_metadata_album_artist_name] :
        g \in GroupBy(Match(coll), TrackUris(Match(coll))) }

getTopTracksByPlayCount(coll) ==
    { Take(s, Limit) : s \in Sort(TrackCountGroups(coll), "total_play_count") }

AlbumGroups(coll) ==
    { [_id |-> g._id,
       total_play_time |-> SumMs(g.docs),
       total_track_plays_from_album_count |-> Len(g.docs),
       artist_name |-> g.docs[1].master_metadata_album_artist_name] :
        g \in GroupBy(Match(coll), AlbumNames(Match(coll))) }

AlbumTimeProject(g) ==
    [_id |-> g._id,
     artist_name |-> g.artist_name,
     total_play_time_mins |-> RoundDiv2(g.total_play_time, MsPerMinute),
     total_play_time_hours |-> RoundDiv2(g.total_play_time, MsPerHour)]

\* $project comes before $sort here: the sort key is the rounded minutes
getTopAlbumsByPlayTime(coll) ==
    { Take(s, Limit) :
        s \in Sort({ AlbumTimeProject(g) : g \in AlbumGroups(coll) },
                   "total_play_time_mins") }

getTopAlbumsByPlayCount(coll) ==
    { Take(s, Limit) :
        s \in Sort(AlbumGroups(coll), "total_track_plays_from_album_count") }

ArtistTimeGroups(coll) ==
    { [_id |-> g._id, total_play_time |-> SumMs(g.docs)] :
        g \in GroupBy(Match(coll), ArtistNames(Match(coll))) }

\* artist_name: 1 projects a field the groups do not have
TimeProject(g) ==
    [_id |-> g._id,
     total_play_time_mins |-> RoundDiv2(g.total_play_time, MsPerMinute),
     total_play_time_hours |-> RoundDiv2(g.total_play_time, MsPerHour)]

getTopArtistsByPlayTime(coll) ==
    { Take([i \in DOMAIN s |-> TimeProject(s[i])], Limit) :
        s \in Sort(ArtistTimeGroups(coll), "total_play_time") }

ArtistCountGroups(coll) ==
    { [_id |-> g._id, total_play_count |-> Len(g.docs)] :
        g \in GroupBy(Match(coll), ArtistNames(Match(coll))) }

getTopArtistsByPlayCount(coll) ==
    { Take(s, Limit) : s \in Sort(ArtistCountGroups(coll), "total_play_count") }

DayTimeGroups(coll) ==
    { [_id |-> g._id, total_play_time |-> SumMs(g.docs)] :
        g \in GroupBy(Match(coll), Days(Match(coll))) }

getTopDaysByPlayTime(coll) ==
    { Take([i \in DOMAIN s |-> TimeProject(s[i])], Limit) :
        s \in Sort(DayTimeGroups(coll), "total_play_time") }

DayCountGroups(coll) ==
    { [_id |-> g._id, total_play_count |-> Len(g.docs)] :
        g \in GroupBy(Match(coll), Days(Match(coll))) }

getTopDaysByPlayCount(coll) ==
    { Take(s, Limit) : s \in Sort(DayCountGroups(coll), "total_play_count") }

\* const [r] = ...; return r.total_mins_played
getTotalMinsPlayed(coll) ==
    LET G == { [_id |-> g._id, total_ms_played |-> SumMs(g.docs)] :
                 g \in GroupBy(Match(coll), Nulls(Match(coll))) }
        out == { [_id |-> g._id,
                  total_mins_played |-> RoundDiv2(g.total_ms_played, MsPerMinute)] :
                 g \in G }
    IN  IF out = {} THEN Threw
        ELSE Returned((CHOOSE r \in out : TRUE).total_mins_played)

\* $count without the $group before it: plays, not tracks
getTotalUniqueTracksPlayed_CountsPlays(coll) ==
    IF Match(coll) = <<>> THEN Threw ELSE Returned(Len(Match(coll)))

\* const [r] = ...; return r.unique_tracks_played
\* $count emits one document for a non-empty input and none for an empty one
getTotalUniqueTracksPlayed(coll) ==
    LET G == { [_id |-> g._id] :
                 g \in GroupBy(Match(coll), TrackUris(Match(coll))) }
        out == IF G = {} THEN {}
               ELSE { [unique_tracks_played |-> Cardinality(G)] }
    IN  IF out = {} THEN Threw
        ELSE Returned((CHOOSE r \in out : TRUE).unique_tracks_played)


-----------------------------------------------------------------------------
(* Collections the script is run against *)

\* file names are sequences of pieces, so that endsWith and includes can look
\* into them
AudioFileName == <<"Streaming_History_", "Audio", "_2024", ".json">>

\* a record as an export batch holds it
PlayRecord(ts, ms, incognito, uri, name, artist, album) ==
    [ts |-> ts,
     ms_played |-> ms,
     incognito_mode |-> incognito,
     spotify_track_uri |-> uri,
     master_metadata_track_name |-> name,
     master_metadata_album_artist_name |-> artist,
     master_metadata_album_album_name |-> album]

\* Object.assign(p, { ts: new Date(p.ts), sourceFile: file, user: "" }): the
\* document the collection holds for record p of file
Document(p, file) ==
    [f \in DOMAIN p \cup {"sourceFile"} |->
        IF f = "sourceFile" THEN file ELSE p[f]]

Play(ts, ms, incognito, uri, name, artist, album) ==
    Document(PlayRecord(ts, ms, incognito, uri, name, artist, album),
             AudioFileName)

\* two tracks of different artists on albums of the same name
Catalog ==
    { [uri |-> 2, name |-> 2, artist |-> 1, album |-> 1],
      [uri |-> 3, name |-> 3, artist |-> 2, album |-> 1] }

\* plays that pass the filter: of the tracks, at the last second of a day and
\* the first of the next; of a podcast episode, whose track fields are null;
\* and one at the first instant of the range
GoodPlays ==
    { Play(ts, ms, FALSE, t.uri, t.name, t.artist, t.album) :
        ts \in {SecondsPerDay - 1, SecondsPerDay},
        ms \in {MinMsPlayed, MinMsPlayed + 200},
        t \in Catalog }
    \cup { Play(SecondsPerDay, ms, FALSE, Null, Null, Null, Null) :
             ms \in {MinMsPlayed, MinMsPlayed + 200} }
    \cup { Play(RangeStart, MinMsPlayed + 300, FALSE, 2, 2, 1, 1) }

\* plays that fail exactly one condition of the filter
BadPlays ==
    { Play(SecondsPerDay, MinMsPlayed, TRUE, 2, 2, 1, 1),
      Play(SecondsPerDay, MinMsPlayed - 1, FALSE, 2, 2, 1, 1),
      Play(SecondsPerDay, MinMsPlayed, FALSE, ExcludedUri, 9, 1, 1),
      Play(RangeStart - 1, MinMsPlayed, FALSE, 2, 2, 1, 1),
      Play(RangeEnd, MinMsPlayed, FALSE, 2, 2, 1, 1) }

PlayPool == GoodPlays \cup BadPlays

ShortStores == UNION { [1..n -> PlayPool] : n \in 0..MaxLen }

RECURSIVE Repeat(_, _)
Repeat(e, n) == IF n = 0 THEN <<>> ELSE <<e>> \o Repeat(e, n - 1)

RECURSIVE ManyTracks(_)
\* k tracks, each with its own artist, album and day; track k is played
\* (k + 1) \div 2 times for MinMsPlayed + 100 * k ms
ManyTracks(k) ==
    IF k = 0 THEN <<>>
    ELSE ManyTracks(k - 1)
         \o Repeat(Play(k * SecondsPerDay, MinMsPlayed + 100 * k, FALSE,
                        10 + k, 10 + k, 10 + k, 10 + k),
                   (k + 1) \div 2)

\* more groups than a leaderboard has rows
LongStores == { ManyTracks(n) : n \in (Limit + 1)..MaxGroups }

\* track 2 for 200000 ms and for 100000 ms, track 3 for 50000 ms
ExampleStore ==
    << Play(SecondsPerDay, 200000, FALSE, 2, 2, 1, 1),
       Play(SecondsPerDay, 100000, FALSE, 2, 2, 1, 1),
       Play(SecondsPerDay, 50000, FALSE, 3, 3, 2, 1) >>

-----------------------------------------------------------------------------
(* The top-level script *)

Init ==
    /\ store \in ShortStores \cup LongStores \cup {ExampleStore}
    /\ pc = "getTotalMinsPlayed"
    /\ total_mins_played = NoValue
    /\ unique_tracks_played = NoValue
    /\ title = ""
    /\ rows = <<>>
    /\ console = <<>>
    /\ files = <<>>
    /\ idx = 0
    /\ ipc = "idle"

\* await getTotalMinsPlayed(), inside the template literal
GetTotalMinsPlayed ==
    /\ pc = "getTotalMinsPlayed"
    /\ LET r == getTotalMinsPlayed(store)
       IN  IF r.threw
           THEN /\ pc' = "crashed"
                /\ UNCHANGED total_mins_played
           ELSE /\ pc' = "getTotalUniqueTracksPlayed"
                /\ total_mins_played' = r.value
    /\ UNCHANGED <<store, unique_tracks_played, title, rows, console, importVars>>

\* await getTotalUniqueTracksPlayed(), inside the template literal
GetTotalUniqueTracksPlayed ==
    /\ pc = "getTotalUniqueTracksPlayed"
    /\ LET r == getTotalUniqueTracksPlayed(store)
       IN  IF r.threw
           THEN /\ pc' = "crashed"
                /\ UNCHANGED unique_tracks_played
           ELSE /\ pc' = "summary"
                /\ unique_tracks_played' = r.value
    /\ UNCHANGED <<store, total_mins_played, title, rows, console, importVars>>

\* console.log("You listened to ... mins of music across ... tracks.")
PrintSummary ==
    /\ pc = "summary"
    /\ console' = Append(console, [line |-> "summary",
                                   mins |-> total_mins_played,
                                   tracks |-> unique_tracks_played])
    /\ pc' = "Top Tracks by Time Listened"
    /\ UNCHANGED <<store, total_mins_played, unique_tracks_played, title, rows,
                   importVars>>

\* logSeries(t, await query(), fmt): the title, a line per record, a blank
Report(t, results, next) ==
    /\ pc = t
    /\ \E records \in results :
         /\ title' = t
         /\ rows' = records
         /\ console' = Append(console, [line |-> t, records |-> Len(records)])
    /\ pc' = next
    /\ UNCHANGED <<store, total_mins_played, unique_tracks_played, importVars>>

TopTracksByTime ==
    Report("Top Tracks by Time Listened", getTopTracksByPlayTime(store),
           "Top Artists by Time Listened")

TopArtistsByTime ==
    Report("Top Artists by Time Listened", getTopArtistsByPlayTime(store),
           "Top Albums by Time Listened")

TopAlbumsByTime ==
    Report("Top Albums by Time Listened", getTopAlbumsByPlayTime(store),
           "Top Days by Time Listened")

TopDaysByTime ==
    Report("Top Days by Time Listened", getTopDaysByPlayTime(store),
           "Top Tracks by Play Count")

TopTracksByCount ==
    Report("Top Tracks by Play Count", getTopTracksByPlayCount(store),
           "Top Artists by Play Count")

TopArtistsByCount ==
    Report("Top Artists by Play Count", getTopArtistsByPlayCount(store),
           "Top Albums by Play Count")

TopAlbumsByCount ==
    Report("Top Albums by Play Count", getTopAlbumsByPlayCount(store),
           "Top Days by Play Count")

TopDaysByCount ==
    Report("Top Days by Play Count", getTopDaysByPlayCount(store), "exit")

\* process.exit(0)
Exit ==
    /\ pc = "exit"
    /\ pc' = "exited"
    /\ UNCHANGED <<store, total_mins_played, unique_tracks_played, title, rows,
                   console, importVars>>

Next ==
    \/ GetTotalMinsPlayed
    \/ GetTotalUniqueTracksPlayed
    \/ PrintSummary
    \/ TopTracksByTime
    \/ TopArtistsByTime
    \/ TopAlbumsByTime
    \/ TopDaysByTime
    \/ TopTracksByCount
    \/ TopArtistsByCount
    \/ TopAlbumsByCount
    \/ TopDaysByCount
    \/ Exit

Spec == Init /\ [][Next]_vars


-----------------------------------------------------------------------------
(* Properties of the script.  What a property says of the data is written  *)
(* here over the documents of store, not through the pipelines.             *)

TracksByTime == "Top Tracks by Time Listened"
ArtistsByTime == "Top Artists by Time Listened"
AlbumsByTime == "Top Albums by Time Listened"
DaysByTime == "Top Days by Time Listened"
TracksByCount == "Top Tracks by Play Count"
ArtistsByCount == "Top Artists by Play Count"
AlbumsByCount == "Top Albums by Play Count"
DaysByCount == "Top Days by Play Count"

Leaderboards ==
    {TracksByTime, ArtistsByTime, AlbumsByTime, DaysByTime,
     TracksByCount, ArtistsByCount, AlbumsByCount, DaysByCount}

\* the arrays the query behind list t can resolve to on collection coll
ResultsOf(t, coll) ==
    CASE t = TracksByTime -> getTopTracksByPlayTime(coll)
      [] t = ArtistsByTime -> getTopArtistsByPlayTime(coll)
      [] t = AlbumsByTime -> getTopAlbumsByPlayTime(coll)
      [] t = DaysByTime -> getTopDaysByPlayTime(coll)
      [] t = TracksByCount -> getTopTracksByPlayCount(coll)
      [] t = ArtistsByCount -> getTopArtistsByPlayCount(coll)
      [] t = AlbumsByCount -> getTopAlbumsByPlayCount(coll)
      [] t = DaysByCount -> getTopDaysByPlayCount(coll)

\* getTotalMinsPlayed has returned
MinsReturned == pc \notin {"getTotalMinsPlayed", "crashed"}

\* getTotalUniqueTracksPlayed has returned
TracksReturned ==
    pc \notin {"getTotalMinsPlayed", "getTotalUniqueTracksPlayed", "crashed"}

\* the four grounds on which a play is left out of every report
Excluded(e) ==
    \/ e.incognito_mode = TRUE
    \/ e.ms_played < 30000
    \/ e.ts < RangeStart
    \/ e.ts >= RangeEnd
    \/ e.spotify_track_uri = ExcludedUri

\* positions of store whose play counts
Counted == { i \in DOMAIN store : ~Excluded(store[i]) }

\* the group key list t puts play e under
KeyOf(t, e) ==
    CASE t \in {TracksByTime, TracksByCount} -> e.spotify_track_uri
      [] t \in {ArtistsByTime, ArtistsByCount} ->
            e.master_metadata_album_artist_name
      [] t \in {AlbumsByTime, AlbumsByCount} ->
            e.master_metadata_album_album_name
      [] t \in {DaysByTime, DaysByCount} -> DateToString(e.ts)

KeysOf(t) == { KeyOf(t, store[i]) : i \in Counted }

RECURSIVE MsOver(_)
\* ms_played summed over the positions I of store
MsOver(I) ==
    IF I = {} THEN 0
    ELSE LET i == CHOOSE j \in I : TRUE
         IN  store[i].ms_played + MsOver(I \ {i})

MsOfKey(t, k) == MsOver({ i \in Counted : KeyOf(t, store[i]) = k })

PlaysOfKey(t, k) == Cardinality({ i \in Counted : KeyOf(t, store[i]) = k })

RowKeys == { rows[i]._id : i \in DOMAIN rows }

RemoveAt(s, i) == SubSeq(s, 1, i - 1) \o SubSeq(s, i + 1, Len(s))

Abs(x) == IF x < 0 THEN -x ELSE x

\* list t is in non-increasing order of Value, and no key left out of it has
\* a larger Value than a key in it
RankedBy(t, Value(_)) ==
    /\ \A i, j \in DOMAIN rows : i < j => Value(rows[i]._id) >= Value(rows[j]._id)
    /\ \A k \in KeysOf(t) \ RowKeys :
         \A i \in DOMAIN rows : Value(k) <= Value(rows[i]._id)

\* C1: a play that is incognito, shorter than 30000 ms, outside
\* [2024-01-01, 2025-01-01) or of the excluded track changes no report: each
\* result obtained is a result of the same query on the store without it.
C1_ExcludedPlaysContributeNothing ==
    \A i \in DOMAIN store :
        Excluded(store[i]) =>
            LET without == RemoveAt(store, i)
            IN  /\ title \in Leaderboards => rows \in ResultsOf(title, without)
                /\ MinsReturned =>
                     getTotalMinsPlayed(without) = Returned(total_mins_played)
                /\ TracksReturned =>
                     getTotalUniqueTracksPlayed(without)
                        = Returned(unique_tracks_played)

\* every report has run on a store holding excluded plays of two kinds beside
\* a counted one
C1_Witness ==
    /\ pc = "exited"
    /\ title = DaysByCount
    /\ Counted # {}
    /\ \E i, j \in DOMAIN store :
         /\ store[i].ms_played < 30000
         /\ store[j].ts >= RangeEnd \/ store[j].incognito_mode

\* C2: when no stored play passes the filter the script does not fail.
C2_EmptyFilteredSetNeverFails ==
    Counted = {} => pc # "crashed"

\* C5: a leaderboard has min(10, number of distinct group keys) rows, at most
\* 10, and no group key twice.
C5_RowCount ==
    title \in Leaderboards =>
        /\ Len(rows) <= 10
        /\ Len(rows) = Min(10, Cardinality(KeysOf(title)))
        /\ \A i, j \in DOMAIN rows : i # j => rows[i]._id # rows[j]._id

\* a leaderboard of 10 rows cut from more than 10 groups
C5_Witness ==
    /\ title \in Leaderboards
    /\ Cardinality(KeysOf(title)) > 10
    /\ Len(rows) = 10

\* C6: Top Tracks by Time is in non-increasing order of the ms_played summed
\* per track, Top Tracks by Count of the plays counted per track, and a track
\* left out never has more than a track returned; on the example store track
\* 2 (300000 ms, 5.0 min, 2 plays) is ranked above track 3 (50000 ms, 0.83
\* min, 1 play).
C6_TracksRanked ==
    /\ title = TracksByTime =>
         /\ RankedBy(title, LAMBDA k : MsOfKey(TracksByTime, k))
         /\ store = ExampleStore =>
              /\ Len(rows) = 2
              /\ rows[1]._id = 2 /\ rows[1].total_mins_played = 500
              /\ rows[2]._id = 3 /\ rows[2].total_mins_played = 83
    /\ title = TracksByCount =>
         /\ RankedBy(title, LAMBDA k : PlaysOfKey(TracksByCount, k))
         /\ store = ExampleStore =>
              /\ Len(rows) = 2
              /\ rows[1]._id = 2 /\ rows[1].total_play_count = 2
              /\ rows[2]._id = 3 /\ rows[2].total_play_count = 1

\* Top Tracks by Count of tracks with different counts, one of them played
\* for less time in total than a track ranked below it
C6_Witness ==
    /\ title = TracksByCount
    /\ Len(rows) >= 2
    /\ PlaysOfKey(title, rows[1]._id) > PlaysOfKey(title, rows[Len(rows)]._id)
    /\ Cardinality(KeysOf(title)) > Len(rows)

\* C7: getTotalMinsPlayed returns the ms_played summed over the plays that
\* pass the filter, in minutes, rounded once to the nearest hundredth.
C7_TotalMinutes ==
    MinsReturned => Abs(600 * total_mins_played - MsOver(Counted)) <= 300

\* a total whose rounding differs from the sum of the plays' roundings
C7_Witness ==
    /\ MinsReturned
    /\ \E i, j \in Counted :
         /\ i # j
         /\ Counted = {i, j}
         /\ total_mins_played # RoundDiv2(store[i].ms_played, MsPerMinute)
                                + RoundDiv2(store[j].ms_played, MsPerMinute)

\* C8: a second run of a leaderboard query on the same store gives the rows
\* the first run gave, in the same order.
C8_RerunIdentical ==
    title \in Leaderboards =>
        \A second \in ResultsOf(title, store) : second = rows

\* C9: getTotalUniqueTracksPlayed returns the number of distinct
\* spotify_track_uri values of the plays that pass the filter, null being
\* one value.
C9_UniqueTracks ==
    TracksReturned =>
        unique_tracks_played
            = Cardinality({ store[i].spotify_track_uri : i \in Counted })

\* counted plays of a podcast episode (null uri), and two of one track
C9_Witness ==
    /\ TracksReturned
    /\ \E i, j, k \in Counted :
         /\ store[i].spotify_track_uri = Null
         /\ j # k
         /\ store[j].spotify_track_uri = store[k].spotify_track_uri
         /\ store[j].spotify_track_uri # Null

\* C10: Top Albums by Time is in non-increasing order of the ms_played summed
\* per album, and no album left out has a larger sum than an album returned.
C10_AlbumsRankedByMs ==
    title = AlbumsByTime =>
        RankedBy(title, LAMBDA k : MsOfKey(AlbumsByTime, k))


-----------------------------------------------------------------------------
(* importPlays.  A file's text is a sequence of JSON tokens; the token      *)
(* "{A}" or "{B}" is the text of one play record.                           *)

RecordA == PlayRecord(SecondsPerDay, 200000, FALSE, 2, 2, 1, 1)

RecordB == PlayRecord(SecondsPerDay, 50000, FALSE, 3, 3, 2, 1)

IsObjectToken(t) == t \in {"{A}", "{B}"}

DecodeObject(t) == IF t = "{A}" THEN RecordA ELSE RecordB

\* text is "[" value ("," value)* "]" or "[" "]"
IsArrayText(text) ==
    /\ Len(text) >= 2
    /\ text[1] = "["
    /\ text[Len(text)] = "]"
    /\ Len(text) > 2 => Len(text) % 2 = 1
    /\ \A i \in 2..(Len(text) - 1) :
         IF i % 2 = 0 THEN IsObjectToken(text[i]) ELSE text[i] = ","

\* JSON.parse(fileContents): the value, or a SyntaxError
JSONparse(text) ==
    IF IsArrayText(text)
    THEN [threw |-> FALSE, isArray |-> TRUE,
          items |-> [i \in 1..((Len(text) - 1) \div 2) |->
                        DecodeObject(text[2 * i])]]
    ELSE IF Len(text) = 1 /\ IsObjectToken(text[1])
         THEN [threw |-> FALSE, isArray |-> FALSE,
               items |-> <<DecodeObject(text[1])>>]
         ELSE [threw |-> TRUE, isArray |-> FALSE, items |-> <<>>]

\* file.endsWith(suffix)
endsWith(name, suffix) == name # <<>> /\ name[Len(name)] = suffix

\* file.includes(part)
includes(name, part) == \E i \in DOMAIN name : name[i] = part

FileNames ==
    { AudioFileName,
      <<"Streaming_History_", "Video", "_2024", ".json">>,
      <<"not-audio", ".json">>,
      <<"Streaming_History_", "Audio", "_2024", ".json", ".bak">> }

FileTexts ==
    { <<>>,
      <<"[", "]">>,
      <<"[", "{A}", ",", "{B}", "]">>,
      <<"[", "{A}", ",">>,
      <<"{A}">> }

DirEntries ==
    { [name |-> n, isDirectory |-> FALSE, contents |-> c] :
        n \in FileNames, c \in FileTexts }
    \cup { [name |-> n, isDirectory |-> TRUE, contents |-> <<>>] :
             n \in {AudioFileName, <<"old">>} }

\* listings of a directory: no name twice
Listings ==
    { l \in UNION { [1..n -> DirEntries] : n \in 0..MaxFiles } :
        \A i, j \in DOMAIN l : i # j => l[i].name # l[j].name }

InitImport ==
    /\ store \in {<<>>, ExampleStore}
    /\ files \in Listings
    /\ idx = 0
    /\ ipc = "loop"
    /\ console = <<>>
    /\ pc = "importPlays"
    /\ total_mins_played = NoValue
    /\ unique_tracks_played = NoValue
    /\ title = ""
    /\ rows = <<>>

\* the entry the loop is at
file == files[idx + 1]

Accepted(f) ==
    ~ ( \/ ~endsWith(f.name, ".json")
        \/ ~includes(f.name, "Audio")
        \/ f.isDirectory )

\* one pass of the loop body that ends in continue or at the end of the body
Continue(lines) ==
    /\ console' = console \o lines
    /\ idx' = idx + 1
    /\ UNCHANGED <<store, files, ipc, runVars>>

SkipInvalidFile ==
    /\ ipc = "loop" /\ idx < Len(files)
    /\ ~Accepted(file)
    /\ Continue(<< <<"skipping invalid file", file.name>> >>)

SkipEmptyFile ==
    /\ ipc = "loop" /\ idx < Len(files)
    /\ Accepted(file)
    /\ file.contents = <<>>
    /\ Continue(<< <<"processing file", file.name>>,
                   <<"skipping empty file", file.name>> >>)

\* JSON.parse throws and nothing catches it: the promise of importPlays
\* rejects
ParseThrows ==
    /\ ipc = "loop" /\ idx < Len(files)
    /\ Accepted(file)
    /\ file.contents # <<>>
    /\ JSONparse(file.contents).threw
    /\ console' = Append(console, <<"processing file", file.name>>)
    /\ ipc' = "threw"
    /\ UNCHANGED <<store, files, idx, runVars>>

SkipNoRecords ==
    /\ ipc = "loop" /\ idx < Len(files)
    /\ Accepted(file)
    /\ file.contents # <<>>
    /\ LET plays == JSONparse(file.contents)
       IN  /\ ~plays.threw
           /\ plays.isArray /\ Len(plays.items) = 0
    /\ Continue(<< <<"processing file", file.name>>,
                   <<"skipping, no records", file.name>> >>)

\* the insertMany call is commented out: the records are counted and dropped
InsertRecords ==
    /\ ipc = "loop" /\ idx < Len(files)
    /\ Accepted(file)
    /\ file.contents # <<>>
    /\ LET plays == JSONparse(file.contents)
       IN  /\ ~plays.threw
           /\ ~(plays.isArray /\ Len(plays.items) = 0)
    /\ Continue(<< <<"processing file", file.name>>,
                   <<"inserting records", file.name>> >>)

ImportReturns ==
    /\ ipc = "loop" /\ idx = Len(files)
    /\ ipc' = "returned"
    /\ UNCHANGED <<store, files, idx, console, runVars>>

NextImport ==
    \/ SkipInvalidFile
    \/ SkipEmptyFile
    \/ ParseThrows
    \/ SkipNoRecords
    \/ InsertRecords
    \/ ImportReturns

SpecImport == InitImport /\ [][NextImport]_vars

-----------------------------------------------------------------------------
(* Properties of importPlays *)

\* the entries at positions 1..n that are files importPlays accepts and whose
\* text is a non-empty array of records
Batches(n) ==
    { i \in 1..n :
        /\ ~files[i].isDirectory
        /\ endsWith(files[i].name, ".json")
        /\ includes(files[i].name, "Audio")
        /\ IsArrayText(files[i].contents)
        /\ Len(files[i].contents) > 2 }

\* C3: a batch file that is malformed, empty or an empty array is skipped and
\* the loop goes on: importPlays never ends by an error.
C3_BadFileNeverAborts ==
    ipc # "threw"

\* C4: once the import phase is over, every record of every accepted,
\* non-empty batch file is in the store, stamped with the name of its file.
C4_ImportedBeforeReports ==
    ipc = "returned" =>
        \A i \in Batches(Len(files)) :
            LET plays == JSONparse(files[i].contents).items
            IN  \A k \in DOMAIN plays :
                    \E j \in DOMAIN store :
                        store[j] = Document(plays[k], files[i].name)

=============================================================================
